---- MODULE Spec2Model ----
(***************************************************************************)
(* The streaming voice-activity endpointing state machine of               *)
(* services/vad-service/vad_service.py (SileroVADService): per-session     *)
(* frame buffering, dual-threshold hysteresis, sliding-window voting and   *)
(* silence-based endpoint detection, with the session store around it.     *)
(*                                                                         *)
(* Probabilities are held in hundredths (0.5 is 50), times in milliseconds.*)
(* The scorer (the Silero model), the Opus decoder and the wall clock are  *)
(* the environment: their outputs are chosen nondeterministically.         *)
(***************************************************************************)
EXTENDS Integers, Sequences, FiniteSets, TLC

VARIABLES
    sessions,       \* self.sessions: a dict, session id -> session record
    opus_decoder,   \* self.opus_decoder: "None" until the first successful construction
    now,            \* the reading time.time() * 1000 gives at this moment
    pc,             \* "idle", "loop" (the while test of process_audio) or "done" (a response on its way to the caller)
    cur,            \* the locals of the process_audio call in progress
    result,         \* what the operation that has just ended hands to its caller
    last,           \* history: what the response before this one was, where a claim asks
    armed,          \* history: ids whose last voice frame has not yet been followed by a frame >= silence_threshold_ms later
    fails,          \* history: how many frames the scorer has raised on
    script          \* the bookkeeping of the scripted specifications (ScenarioSpec, TwinSpec)

vars == <<sessions, opus_decoder, now, pc, cur, result, last, armed, fails, script>>

----------------------------------------------------------------------------
(* Program constants *)

FrameBytes == 1024
WindowSize == 10
vad_threshold == 50
vad_threshold_low == 20
silence_threshold_ms == 1000
frame_window_threshold == 3
OpusPcmBytes == 1920
NoProb == -1

(* Bounds of the model *)

MaxFlips == 1
MaxTicks == 2
MaxFails == 1
MaxStoreFrames == 2
MaxTwinCalls == 2
MaxProbs == 4
MaxResumeFlips == 3
MaxCfgFrames == 2
MaxCalls == 3
MaxWindowFrames == 11

SessionIds == {"a"}
StoreIds == {"a", "b"}
Formats == {"pcm", "opus"}
PcmLens == {512, 2048}
ProbSet == {20, 35, 50}
Epochs == {500}
ClockSteps == {500}

(* Byte strings are held as runs: <<[byte |-> b, n |-> k], ...>> is k bytes  *)
(* of value b, and so on; no run is empty and neighbouring runs differ in    *)
(* their byte, so that every byte string has exactly one such form.          *)

Fill(n, b) == IF n = 0 THEN << >> ELSE <<[byte |-> b, n |-> n]>>

RECURSIVE BytesLen(_)
BytesLen(buf) == IF buf = << >> THEN 0 ELSE Head(buf).n + BytesLen(Tail(buf))

\* bytearray.extend
Concat(a, b) ==
    IF a = << >> THEN b
    ELSE IF b = << >> THEN a
    ELSE IF a[Len(a)].byte = Head(b).byte
    THEN SubSeq(a, 1, Len(a) - 1)
            \o <<[byte |-> Head(b).byte, n |-> a[Len(a)].n + Head(b).n]>>
            \o Tail(b)
    ELSE a \o b

\* buf[k:]
RECURSIVE DropBytes(_, _)
DropBytes(buf, k) ==
    IF k = 0 \/ buf = << >> THEN buf
    ELSE IF Head(buf).n <= k THEN DropBytes(Tail(buf), k - Head(buf).n)
    ELSE <<[Head(buf) EXCEPT !.n = @ - k]>> \o Tail(buf)

\* buf[:k]
RECURSIVE TakeBytes(_, _)
TakeBytes(buf, k) ==
    IF k = 0 \/ buf = << >> THEN << >>
    ELSE IF Head(buf).n <= k
    THEN Concat(<<Head(buf)>>, TakeBytes(Tail(buf), k - Head(buf).n))
    ELSE <<[Head(buf) EXCEPT !.n = k]>>

----------------------------------------------------------------------------
(* The session record and the pure steps of process_audio *)

NewSession ==
    [ audio_buffer       |-> << >>,
      voice_window       |-> << >>,
      have_voice         |-> FALSE,
      last_is_voice      |-> FALSE,
      last_activity_time |-> 0,
      voice_stop         |-> FALSE ]

\* Mutant: a store that holds one session, the one asked for last.
get_or_create_session_single(ss, id) ==
    IF id \notin DOMAIN ss THEN (id :> NewSession) ELSE ss

get_or_create_session(ss, id) ==
    IF id \notin DOMAIN ss THEN ss @@ (id :> NewSession) ELSE ss

\* Mutant: the entry is deleted without the membership test, so that an
\* unknown id raises KeyError and the endpoint answers with an error.
reset_session_unguarded(ss, id) ==
    [ store |-> IF id \in DOMAIN ss THEN [k \in DOMAIN ss \ {id} |-> ss[k]] ELSE ss,
      kind  |-> IF id \in DOMAIN ss THEN "reset" ELSE "error" ]

\* Mutant: the whole dict is replaced by an empty one.
reset_session_clears_all(ss, id) == [store |-> << >>, kind |-> "reset"]

\* Mutant: the session is emptied of its bytes but kept.
reset_session_keeps_state(ss, id) ==
    [ store |-> IF id \in DOMAIN ss
                THEN [ss EXCEPT ![id] = [@ EXCEPT !.audio_buffer = << >>]]
                ELSE ss,
      kind  |-> "reset" ]

\* reset_session and the answer of POST /vad/reset.
reset_session(ss, id) ==
    [ store |-> IF id \in DOMAIN ss THEN [k \in DOMAIN ss \ {id} |-> ss[k]] ELSE ss,
      kind  |-> "reset" ]

ExtendBuffer(s, data) == [s EXCEPT !.audio_buffer = Concat(@, data)]

\* Line 256: the frame the loop hands to the scorer.
FrameChunk(s) == TakeBytes(s.audio_buffer, FrameBytes)

\* Mutant: the buffer is emptied once a frame has been taken from it.
PopFrameClears(s) == [s EXCEPT !.audio_buffer = << >>]

PopFrame(s) ==
    [s EXCEPT !.audio_buffer = DropBytes(@, FrameBytes)]

\* Mutant: one threshold, no hysteresis.
ClassifySingleThreshold(prob, last_is_voice) == prob >= vad_threshold

Classify(prob, last_is_voice) ==
    IF prob >= vad_threshold THEN TRUE
    ELSE IF prob <= vad_threshold_low THEN FALSE
    ELSE last_is_voice

\* Mutant: the decision is appended and the window never cut back.
AppendWindowUntrimmed(w, is_voice) == Append(w, is_voice)

\* Mutant: a full window keeps its entries and drops the new decision.
AppendWindowDropsNewest(w, is_voice) ==
    IF Len(w) >= WindowSize THEN w ELSE Append(w, is_voice)

AppendWindow(w, is_voice) ==
    LET w2 == Append(w, is_voice)
    IN  IF Len(w2) > WindowSize
        THEN SubSeq(w2, Len(w2) - WindowSize + 1, Len(w2))
        ELSE w2

CountTrue(w) == Cardinality({i \in 1..Len(w) : w[i]})

Vote(w) == CountTrue(w) >= frame_window_threshold

\* Mutant: the elapsed time is looked at on every frame whose candidate is
\* false, whether or not the session had voice before it.
EndpointCheckAnySilence(s, client_have_voice, t) ==
    IF /\ ~client_have_voice
       /\ s.last_activity_time > 0
       /\ t - s.last_activity_time >= silence_threshold_ms
    THEN [s EXCEPT !.voice_stop = TRUE]
    ELSE s

\* Mutant: the flag is raised at the voice-to-silence frame whatever time has
\* passed.
EndpointCheckNoElapsed(s, client_have_voice, t) ==
    IF /\ s.have_voice
       /\ ~client_have_voice
       /\ s.last_activity_time > 0
    THEN [s EXCEPT !.voice_stop = TRUE]
    ELSE s

EndpointCheck(s, client_have_voice, t) ==
    IF /\ s.have_voice
       /\ ~client_have_voice
       /\ s.last_activity_time > 0
       /\ t - s.last_activity_time >= silence_threshold_ms
    THEN [s EXCEPT !.voice_stop = TRUE]
    ELSE s

\* Mutant: the else branch of line 322 is missing, have_voice is only ever set.
UpdateStateKeepsVoice(s, client_have_voice, t) ==
    IF client_have_voice
    THEN [s EXCEPT !.have_voice = TRUE,
                   !.last_activity_time = t,
                   !.voice_stop = FALSE]
    ELSE s

\* Mutant: the time and the flags are written only when voice begins.
UpdateStateOnRisingEdge(s, client_have_voice, t) ==
    IF client_have_voice
    THEN IF s.have_voice THEN s
         ELSE [s EXCEPT !.have_voice = TRUE,
                        !.last_activity_time = t,
                        !.voice_stop = FALSE]
    ELSE [s EXCEPT !.have_voice = FALSE]

\* Mutant: the last voice time is forgotten when voice ends.
UpdateStateForgetsTime(s, client_have_voice, t) ==
    IF client_have_voice
    THEN [s EXCEPT !.have_voice = TRUE,
                   !.last_activity_time = t,
                   !.voice_stop = FALSE]
    ELSE [s EXCEPT !.have_voice = FALSE, !.last_activity_time = 0]

\* Mutant: have_voice outlives the frame that raises the endpoint.
UpdateStateHoldsVoiceAtEndpoint(s, client_have_voice, t) ==
    IF client_have_voice
    THEN [s EXCEPT !.have_voice = TRUE,
                   !.last_activity_time = t,
                   !.voice_stop = FALSE]
    ELSE IF s.voice_stop THEN s
    ELSE [s EXCEPT !.have_voice = FALSE]

UpdateState(s, client_have_voice, t) ==
    IF client_have_voice
    THEN [s EXCEPT !.have_voice = TRUE,
                   !.last_activity_time = t,
                   !.voice_stop = FALSE]
    ELSE [s EXCEPT !.have_voice = FALSE]

\* One pass of the loop body after the frame has been scored: lines 286-323.
ProcessFrame(s, prob, t) ==
    LET is_voice == Classify(prob, s.last_is_voice)
        s1 == [s EXCEPT !.last_is_voice = is_voice,
                        !.voice_window = AppendWindow(@, is_voice)]
        client_have_voice == Vote(s1.voice_window)
    IN  UpdateState(EndpointCheck(s1, client_have_voice, t), client_have_voice, t)

\* Mutant: the error path reinitialises the session around the bytes left.
FailedFrameResets(s) == [NewSession EXCEPT !.audio_buffer = s.audio_buffer]

\* The session a frame leaves behind when the scorer raises on it: s is the
\* session with the frame already cut off at line 257.
FailedFrame(s) == s

\* Mutant: the flag is read and left set.
ReadEndpointKeeps(s) == s

\* Lines 326-329: the flag is read, and cleared when it was set.
ReadEndpoint(s) ==
    IF s.voice_stop THEN [s EXCEPT !.voice_stop = FALSE] ELSE s

Response(kind, id, have_voice, voice_stop, speech_prob) ==
    [ kind        |-> kind,
      sid         |-> id,
      have_voice  |-> have_voice,
      voice_stop  |-> voice_stop,
      speech_prob |-> speech_prob ]

\* Lines 331-335.
OkResponse(s, id, client_have_voice, speech_prob) ==
    Response("ok", id, client_have_voice, s.voice_stop, speech_prob)

\* Mutant: the early return reports the pending flag instead of False.
DecodeFailedReportsPending(s, id) ==
    [ session  |-> s,
      response |-> Response("decode_failed", id, s.have_voice, s.voice_stop, NoProb) ]

\* Mutant: the early return reads the flag the way the normal return does.
DecodeFailedConsumes(s, id) ==
    [ session  |-> ReadEndpoint(s),
      response |-> Response("decode_failed", id, s.have_voice, FALSE, NoProb) ]

\* The two early returns of the opus branch: lines 232-235 and 242-245.
DecodeFailed(s, id) ==
    [ session  |-> s,
      response |-> Response("decode_failed", id, s.have_voice, FALSE, NoProb) ]

\* The HTTPException of lines 337-339 carries no result.
ErrorResponse(id) == Response("error", id, FALSE, FALSE, NoProb)

NoResponse == Response("none", "", FALSE, FALSE, NoProb)

NoCall == [sid |-> "", client_have_voice |-> FALSE, speech_prob |-> NoProb]

NoLast == [op |-> "", sid |-> ""]

\* What a later claim needs to know of a response once the caller has taken it.
Summary(r) ==
    IF r.kind = "ok" /\ r.voice_stop THEN [op |-> "stop", sid |-> r.sid]
    ELSE IF r.kind = "reset" THEN [op |-> "reset", sid |-> r.sid]
    ELSE NoLast

\* How often neighbouring decisions of a window differ.
Flips(w) == Cardinality({i \in 1..(Len(w) - 1) : w[i] # w[i + 1]})

\* The frames a call finds complete if its decode succeeds.
FramesIn(ss, id, fmt, data) ==
    LET had == IF id \in DOMAIN ss THEN BytesLen(ss[id].audio_buffer) ELSE 0
        got == IF fmt = "opus" THEN OpusPcmBytes ELSE BytesLen(data)
    IN  (had + got) \div FrameBytes

----------------------------------------------------------------------------
(* The operations, one action per step of a handler *)

\* process_audio from its entry to the while loop: session lookup, decode, append.
Begin(id, fmt, data, create_ok, decode_ok) ==
    /\ pc = "idle"
    /\ LET ss == get_or_create_session(sessions, id)
           session == ss[id]
           locals == [sid |-> id, client_have_voice |-> FALSE, speech_prob |-> NoProb]
       IN  /\ cur' = locals
           /\ IF fmt = "opus" /\ opus_decoder = "None" /\ ~create_ok
              THEN /\ sessions' = [ss EXCEPT ![id] = DecodeFailed(session, id).session]
                   /\ opus_decoder' = opus_decoder
                   /\ result' = DecodeFailed(session, id).response
                   /\ pc' = "done"
              ELSE IF fmt = "opus" /\ ~decode_ok
              THEN /\ sessions' = [ss EXCEPT ![id] = DecodeFailed(session, id).session]
                   /\ opus_decoder' = "Decoder"
                   /\ result' = DecodeFailed(session, id).response
                   /\ pc' = "done"
              ELSE /\ sessions' = [ss EXCEPT ![id] =
                           ExtendBuffer(@, IF fmt = "opus" THEN Fill(OpusPcmBytes, 0) ELSE data)]
                   /\ opus_decoder' = IF fmt = "opus" THEN "Decoder" ELSE opus_decoder
                   /\ pc' = "loop"
                   /\ UNCHANGED result
    /\ UNCHANGED <<now, last, armed, fails>>

\* Mutant: speech_prob is overwritten by every frame.
FrameReportsLast(prob) ==
    /\ pc = "loop"
    /\ BytesLen(sessions[cur.sid].audio_buffer) >= FrameBytes
    /\ LET id == cur.sid
           s2 == ProcessFrame(PopFrame(sessions[id]), prob, now)
       IN  /\ sessions' = [sessions EXCEPT ![id] = s2]
           /\ cur' = [cur EXCEPT !.client_have_voice = s2.have_voice,
                                 !.speech_prob = prob]
           /\ armed' = IF s2.have_voice THEN armed \cup {id}
                       ELSE IF now - s2.last_activity_time >= silence_threshold_ms
                       THEN armed \ {id}
                       ELSE armed
    /\ UNCHANGED <<opus_decoder, now, pc, result, last, fails>>

\* One iteration of the while loop whose frame the scorer scores as prob.
Frame(prob) ==
    /\ pc = "loop"
    /\ BytesLen(sessions[cur.sid].audio_buffer) >= FrameBytes
    /\ LET id == cur.sid
           s2 == ProcessFrame(PopFrame(sessions[id]), prob, now)
       IN  /\ sessions' = [sessions EXCEPT ![id] = s2]
           /\ cur' = [cur EXCEPT !.client_have_voice = s2.have_voice,
                                 !.speech_prob = IF @ = NoProb THEN prob ELSE @]
           /\ armed' = IF s2.have_voice THEN armed \cup {id}
                       ELSE IF now - s2.last_activity_time >= silence_threshold_ms
                       THEN armed \ {id}
                       ELSE armed
    /\ UNCHANGED <<opus_decoder, now, pc, result, last, fails>>

\* Mutant: the frame is cut off the buffer only once it has been scored, so a
\* failure leaves it at the head of the buffer.
FrameFailsKeepsFrame ==
    /\ pc = "loop"
    /\ BytesLen(sessions[cur.sid].audio_buffer) >= FrameBytes
    /\ fails' = fails + 1
    /\ pc' = "done"
    /\ result' = ErrorResponse(cur.sid)
    /\ UNCHANGED <<sessions, opus_decoder, now, cur, last, armed>>

\* One iteration of the while loop whose frame the scorer raises on: the
\* exception leaves through the handler at lines 337-339.
FrameFails ==
    /\ pc = "loop"
    /\ BytesLen(sessions[cur.sid].audio_buffer) >= FrameBytes
    /\ fails' = fails + 1
    /\ sessions' = [sessions EXCEPT ![cur.sid] = FailedFrame(PopFrame(@))]
    /\ pc' = "done"
    /\ result' = ErrorResponse(cur.sid)
    /\ UNCHANGED <<opus_decoder, now, cur, last, armed>>

\* Mutant: the return reports the flag and leaves it set.
ReturnKeepsEndpoint ==
    /\ pc = "loop"
    /\ BytesLen(sessions[cur.sid].audio_buffer) < FrameBytes
    /\ result' = OkResponse(sessions[cur.sid], cur.sid, cur.client_have_voice, cur.speech_prob)
    /\ pc' = "done"
    /\ UNCHANGED <<sessions, opus_decoder, now, cur, last, armed, fails>>

\* The loop has drained every complete frame: lines 325-335.
Return ==
    /\ pc = "loop"
    /\ BytesLen(sessions[cur.sid].audio_buffer) < FrameBytes
    /\ sessions' = [sessions EXCEPT ![cur.sid] = ReadEndpoint(@)]
    /\ result' = OkResponse(sessions[cur.sid], cur.sid, cur.client_have_voice, cur.speech_prob)
    /\ pc' = "done"
    /\ UNCHANGED <<opus_decoder, now, cur, last, armed, fails>>

\* Mutant: the reset handler runs beside an ingest that is in its loop.
ResetBesideIngest(id) ==
    /\ pc \in {"idle", "loop"}
    /\ sessions' = reset_session(sessions, id).store
    /\ IF pc = "idle"
       THEN /\ result' = Response(reset_session(sessions, id).kind, id, FALSE, FALSE, NoProb)
            /\ pc' = "done"
       ELSE UNCHANGED <<result, pc>>
    /\ armed' = armed \ {id}
    /\ UNCHANGED <<opus_decoder, now, cur, last, fails>>

\* POST /vad/reset. Like every handler of the app it is an async function
\* without an await around the service call, so the event loop runs it only
\* between other handlers.
Reset(id) ==
    /\ pc = "idle"
    /\ sessions' = reset_session(sessions, id).store
    /\ result' = Response(reset_session(sessions, id).kind, id, FALSE, FALSE, NoProb)
    /\ pc' = "done"
    /\ armed' = armed \ {id}
    /\ UNCHANGED <<opus_decoder, now, cur, last, fails>>

\* The caller has taken the response.
Deliver ==
    /\ pc = "done"
    /\ pc' = "idle"
    /\ last' = Summary(result)
    /\ result' = NoResponse
    /\ cur' = NoCall
    /\ UNCHANGED <<sessions, opus_decoder, now, armed, fails>>

\* Wall-clock time passes.
Tick(d) ==
    /\ now' = now + d
    /\ UNCHANGED <<sessions, opus_decoder, pc, cur, result, last, armed, fails>>

----------------------------------------------------------------------------
(* Spec: one stream, followed in depth *)

\* Mutant: the decoder is built in the constructor.
StartedWithDecoder ==
    /\ sessions = << >>
    /\ opus_decoder = "Decoder"
    /\ now \in Epochs
    /\ pc = "idle"
    /\ cur = NoCall
    /\ result = NoResponse
    /\ last = NoLast
    /\ armed = {}
    /\ fails = 0

\* The service as __init__ leaves it, before any request.
Started ==
    /\ sessions = << >>
    /\ opus_decoder = "None"
    /\ now \in Epochs
    /\ pc = "idle"
    /\ cur = NoCall
    /\ result = NoResponse
    /\ last = NoLast
    /\ armed = {}
    /\ fails = 0

Init == Started /\ script = 0

Ingest ==
    \E id \in SessionIds, fmt \in Formats, n \in PcmLens, create_ok \in BOOLEAN, decode_ok \in BOOLEAN :
        Begin(id, fmt, Fill(n, 0), create_ok, decode_ok) /\ UNCHANGED script

Score ==
    \E prob \in ProbSet :
        /\ Frame(prob)
        /\ Flips(sessions'[cur.sid].voice_window) <= MaxFlips
        /\ UNCHANGED script

ScoreFailure == fails < MaxFails /\ FrameFails /\ UNCHANGED script

Respond == Return /\ UNCHANGED script

ResetSession == \E id \in SessionIds : Reset(id) /\ UNCHANGED script

Taken == Deliver /\ UNCHANGED script

Clock ==
    \E d \in ClockSteps :
        now + d <= 500 * (MaxTicks + 1) /\ Tick(d) /\ UNCHANGED script

Next ==
    \/ Ingest
    \/ Score
    \/ ScoreFailure
    \/ Respond
    \/ ResetSession
    \/ Taken
    \/ Clock

Spec == Init /\ [][Next]_vars

----------------------------------------------------------------------------
(* StoreSpec: two streams side by side, each followed for a few frames *)

RECURSIVE WindowSum(_, _)
WindowSum(ss, ids) ==
    IF ids = {} THEN 0
    ELSE LET id == CHOOSE x \in ids : TRUE
         IN  Len(ss[id].voice_window) + WindowSum(ss, ids \ {id})

StoreIngest ==
    \E id \in StoreIds, fmt \in Formats, n \in PcmLens, create_ok \in BOOLEAN, decode_ok \in BOOLEAN :
        /\ WindowSum(sessions, DOMAIN sessions) + FramesIn(sessions, id, fmt, Fill(n, 0))
              <= MaxStoreFrames
        /\ Begin(id, fmt, Fill(n, 0), create_ok, decode_ok)
        /\ UNCHANGED script

StoreReset == \E id \in StoreIds : Reset(id) /\ UNCHANGED script

StoreNext ==
    \/ StoreIngest
    \/ Score
    \/ ScoreFailure
    \/ Respond
    \/ StoreReset
    \/ Taken
    \/ Clock

StoreSpec == Init /\ [][StoreNext]_vars

----------------------------------------------------------------------------
(* ScenarioSpec: the streaming scenario, call by call: one call of silence,  *)
(* five calls of voice, eleven calls (1100 ms) of silence; every call feeds  *)
(* 100 ms of 16 kHz 16-bit mono PCM and the caller sleeps 100 ms between     *)
(* calls, as test_vad.py does. script = [call, slept, stops]: the calls made,*)
(* whether the caller has slept since the last one, and the voice_stop of    *)
(* every call of the final silence.                                          *)

ScnChunk == Fill(3200, 0)

ScnVoiceFrom == 1 + 1
ScnSilenceFrom == ScnVoiceFrom + 5
ScnCalls == ScnSilenceFrom + 11 - 1

ScnProb(call) ==
    IF call >= ScnVoiceFrom /\ call < ScnSilenceFrom THEN 90 ELSE 0

\* time.sleep(0.1), and what the request itself may take
ScnSleeps == {100, 110}

ScnInit == Started /\ script = [call |-> 0, slept |-> TRUE, stops |-> << >>]

ScnIngest ==
    /\ script.call < ScnCalls
    /\ script.slept
    /\ Begin("a", "pcm", ScnChunk, TRUE, TRUE)
    /\ script' = [script EXCEPT !.call = @ + 1, !.slept = FALSE]

ScnScore == Frame(ScnProb(script.call)) /\ UNCHANGED script

ScnRespond ==
    /\ Return
    /\ script' = IF script.call >= ScnSilenceFrom
                 THEN [script EXCEPT !.stops = Append(@, result'.voice_stop)]
                 ELSE script

ScnTaken == Deliver /\ UNCHANGED script

ScnSleep ==
    /\ pc = "idle"
    /\ ~script.slept
    /\ \E d \in ScnSleeps : Tick(d)
    /\ script' = [script EXCEPT !.slept = TRUE]

ScnNext ==
    \/ ScnIngest
    \/ ScnScore
    \/ ScnRespond
    \/ ScnTaken
    \/ ScnSleep

ScenarioSpec == ScnInit /\ [][ScnNext]_vars

----------------------------------------------------------------------------
(* process_audio as one function of the store, the decoder, the request and  *)
(* what the environment answers during the call: scores[k] for the k-th      *)
(* frame (read cyclically), an exception on frame fail_at (0: none), the     *)
(* clock reading t.                                                          *)

RECURSIVE Drain(_, _, _, _, _, _, _, _)
Drain(s, id, scores, fail_at, k, t, client_have_voice, speech_prob) ==
    IF BytesLen(s.audio_buffer) < FrameBytes
    THEN [ session  |-> ReadEndpoint(s),
           response |-> OkResponse(s, id, client_have_voice, speech_prob) ]
    ELSE IF k = fail_at
    THEN [ session  |-> FailedFrame(PopFrame(s)),
           response |-> ErrorResponse(id) ]
    ELSE LET prob == scores[((k - 1) % Len(scores)) + 1]
             s2 == ProcessFrame(PopFrame(s), prob, t)
         IN  Drain(s2, id, scores, fail_at, k + 1, t, s2.have_voice,
                   IF speech_prob = NoProb THEN prob ELSE speech_prob)

RunCall(ss, decoder, id, fmt, data, create_ok, decode_ok, scores, fail_at, t) ==
    LET ss1 == get_or_create_session(ss, id)
        session == ss1[id]
    IN  IF fmt = "opus" /\ decoder = "None" /\ ~create_ok
        THEN [ store    |-> [ss1 EXCEPT ![id] = DecodeFailed(session, id).session],
               decoder  |-> decoder,
               response |-> DecodeFailed(session, id).response ]
        ELSE IF fmt = "opus" /\ ~decode_ok
        THEN [ store    |-> [ss1 EXCEPT ![id] = DecodeFailed(session, id).session],
               decoder  |-> "Decoder",
               response |-> DecodeFailed(session, id).response ]
        ELSE LET fed == ExtendBuffer(session,
                            IF fmt = "opus" THEN Fill(OpusPcmBytes, 0) ELSE data)
                 r == Drain(fed, id, scores, fail_at, 1, t, FALSE, NoProb)
             IN  [ store    |-> [ss1 EXCEPT ![id] = r.session],
                   decoder  |-> IF fmt = "opus" THEN "Decoder" ELSE decoder,
                   response |-> r.response ]

----------------------------------------------------------------------------
(* TwinSpec: stream "a" is used, then reset; from then on every request made *)
(* on "a" is made on the never used "b" as well, with the same answers of    *)
(* the environment. script = [phase, used, calls, other]: "history" or       *)
(* "twin", whether the reset removed a session that had processed frames,    *)
(* the twin calls made, and the response of the call on "b".                 *)

TwinInit ==
    Started /\ script = [phase |-> "history", used |-> FALSE, calls |-> 0,
                         other |-> NoResponse]

TwinHistory ==
    /\ script.phase = "history"
    /\ \/ Ingest
       \/ Score
       \/ ScoreFailure
       \/ Respond

TwinReset ==
    /\ script.phase = "history"
    /\ Reset("a")
    /\ script' = [script EXCEPT
                    !.phase = "twin",
                    !.used = "a" \in DOMAIN sessions /\ sessions["a"].voice_window # << >>]

\* The requests of the twin phase: <<format, bytes, decoder built, decoded>>.
TwinRequests ==
    {<<"pcm", n, TRUE, TRUE>> : n \in PcmLens}
        \cup {<<"opus", 0, FALSE, FALSE>>, <<"opus", 0, TRUE, FALSE>>, <<"opus", 0, TRUE, TRUE>>}

TwinCall ==
    /\ pc = "idle"
    /\ script.phase = "twin"
    /\ script.calls < MaxTwinCalls
    /\ \E rq \in TwinRequests, scores \in [1..2 -> ProbSet], fail_at \in 0..2 :
         \E ra \in {RunCall(sessions, opus_decoder, "a", rq[1], Fill(rq[2], 0),
                            rq[3], rq[4], scores, fail_at, now)} :
           \E rb \in {RunCall(ra.store, ra.decoder, "b", rq[1], Fill(rq[2], 0),
                              rq[3], rq[4], scores, fail_at, now)} :
             LET failed == IF ra.response.kind = "error" THEN 1 ELSE 0
             IN  /\ fails + failed <= MaxFails
                 /\ Flips(ra.store["a"].voice_window) <= MaxFlips
                 /\ sessions' = rb.store
                 /\ opus_decoder' = rb.decoder
                 /\ result' = ra.response
                 /\ script' = [script EXCEPT !.other = rb.response, !.calls = @ + 1]
                 /\ fails' = fails + failed
    /\ pc' = "done"
    /\ UNCHANGED <<now, cur, last, armed>>

TwinNext ==
    \/ TwinHistory
    \/ TwinReset
    \/ TwinCall
    \/ Taken
    \/ Clock

TwinSpec == TwinInit /\ [][TwinNext]_vars

----------------------------------------------------------------------------
(* HysteresisSpec: one stream whose scores are kept: script is the sequence *)
(* of the probabilities the scorer has returned since the session was       *)
(* created, the values on both sides of either threshold among them.        *)

HysProbs == {20, 21, 49, 50}

HysInit == Started /\ script = << >>

HysScore ==
    \E prob \in HysProbs :
        /\ Len(script) < MaxProbs
        /\ Frame(prob)
        /\ script' = Append(script, prob)

HysReset == Reset("a") /\ script' = << >>

HysNext ==
    \/ Ingest
    \/ HysScore
    \/ ScoreFailure
    \/ Respond
    \/ HysReset
    \/ Taken

HysteresisSpec == HysInit /\ [][HysNext]_vars

----------------------------------------------------------------------------
(* ResumeSpec: one stream in which voice comes and goes several times: calls *)
(* of two frames of PCM, scores on either side of both thresholds, and one   *)
(* pause of a second at any moment.                                          *)

ResumeProbs == {20, 50}

ResumePauses == {1000}

ResumeIngest == Begin("a", "pcm", Fill(2 * FrameBytes, 0), TRUE, TRUE) /\ UNCHANGED script

ResumeScore ==
    \E prob \in ResumeProbs :
        /\ Frame(prob)
        /\ Flips(sessions'[cur.sid].voice_window) <= MaxResumeFlips
        /\ UNCHANGED script

ResumePause ==
    \E d \in ResumePauses :
        /\ now \in Epochs
        /\ Tick(d)
        /\ UNCHANGED script

ResumeNext ==
    \/ ResumeIngest
    \/ ResumeScore
    \/ Respond
    \/ Taken
    \/ ResumePause

ResumeSpec == Init /\ [][ResumeNext]_vars

----------------------------------------------------------------------------
(* ConfigSpec: the service from its construction on. script = [state, cfg]: *)
(* "new" before SileroVADService(...) has run, "ready" once it has returned, *)
(* "failed" when it raised; cfg holds the arguments it was called with, the  *)
(* defaults and values outside their meaningful range among them.            *)

Configs ==
    [ threshold               : {vad_threshold},
      threshold_low           : {vad_threshold_low, vad_threshold, vad_threshold + 10},
      min_silence_duration_ms : {silence_threshold_ms, 0},
      frame_window_threshold  : {frame_window_threshold, 0} ]

\* Lines 286-323 with the parameters the instance was built with.
ProcessFrameUnder(cfg, s, prob, t) ==
    LET is_voice == IF prob >= cfg.threshold THEN TRUE
                    ELSE IF prob <= cfg.threshold_low THEN FALSE
                    ELSE s.last_is_voice
        s1 == [s EXCEPT !.last_is_voice = is_voice,
                        !.voice_window = AppendWindow(@, is_voice)]
        client_have_voice == CountTrue(s1.voice_window) >= cfg.frame_window_threshold
        s2 == IF /\ s1.have_voice
                 /\ ~client_have_voice
                 /\ s1.last_activity_time > 0
                 /\ t - s1.last_activity_time >= cfg.min_silence_duration_ms
              THEN [s1 EXCEPT !.voice_stop = TRUE]
              ELSE s1
    IN  UpdateState(s2, client_have_voice, t)

CfgInit == Started /\ script \in [state : {"new"}, cfg : Configs]

\* __init__: the model is loaded (RuntimeError when that fails), then the
\* arguments are stored as they came.
Construct(model_ok) ==
    /\ script.state = "new"
    /\ script' = [script EXCEPT !.state = IF model_ok THEN "ready" ELSE "failed"]
    /\ UNCHANGED <<sessions, opus_decoder, now, pc, cur, result, last, armed, fails>>

\* vad_service = SileroVADService(): the module builds its instance before
\* the app takes a request.
CfgConstruct ==
    \E model_ok \in BOOLEAN :
        /\ pc = "idle"
        /\ Construct(model_ok)

CfgIngest ==
    /\ script.state = "ready"
    /\ \E id \in SessionIds, n \in PcmLens :
          /\ FramesIn(sessions, id, "pcm", Fill(n, 0))
                + WindowSum(sessions, DOMAIN sessions) <= MaxCfgFrames
          /\ Begin(id, "pcm", Fill(n, 0), TRUE, TRUE)
    /\ UNCHANGED script

CfgScore ==
    \E prob \in ProbSet :
        /\ pc = "loop"
        /\ BytesLen(sessions[cur.sid].audio_buffer) >= FrameBytes
        /\ LET s2 == ProcessFrameUnder(script.cfg, PopFrame(sessions[cur.sid]), prob, now)
           IN  /\ sessions' = [sessions EXCEPT ![cur.sid] = s2]
               /\ cur' = [cur EXCEPT !.client_have_voice = s2.have_voice,
                                     !.speech_prob = IF @ = NoProb THEN prob ELSE @]
        /\ UNCHANGED <<opus_decoder, now, pc, result, last, armed, fails, script>>

CfgNext ==
    \/ CfgConstruct
    \/ CfgIngest
    \/ CfgScore
    \/ Respond
    \/ Taken

ConfigSpec == CfgInit /\ [][CfgNext]_vars

----------------------------------------------------------------------------
(* RaceSpec: the service of vad_service_grpc.py under the server its serve() *)
(* builds, grpc.server(ThreadPoolExecutor(max_workers=10)): every Detect     *)
(* call runs process_audio on a thread of the pool, and process_audio takes  *)
(* no lock. Two threads are followed, each through one call on session "a";  *)
(* a thread switch may fall between any two statements. script[i] holds the  *)
(* locals of thread i: its position, its chunk, the session object its       *)
(* variable session refers to ("store": the object the dict holds under the  *)
(* id; "own": an object the dict no longer holds, kept in own), the frame    *)
(* it has cut off, client_have_voice, speech_prob and its result.            *)

Threads == {1, 2}

RaceLens == {512, 1024}

RaceProbs == {20, 50}

ThreadStart(n) ==
    [ pc |-> "start", data |-> Fill(n, 0), ref |-> "none", own |-> NewSession,
      chunk |-> 0, client_have_voice |-> FALSE, speech_prob |-> NoProb,
      response |-> NoResponse ]

RaceInit ==
    /\ Started
    /\ script \in {<<ThreadStart(n1), ThreadStart(n2)>> : n1 \in RaceLens, n2 \in RaceLens}

\* The session object thread i works on.
SessionOf(i) == IF script[i].ref = "store" THEN sessions["a"] ELSE script[i].own

\* Thread i leaves its session object as s and its locals as w.
ThreadWrites(i, s, w) ==
    IF script[i].ref = "store"
    THEN /\ sessions' = [sessions EXCEPT !["a"] = s]
         /\ script' = [script EXCEPT ![i] = w]
    ELSE /\ sessions' = sessions
         /\ script' = [script EXCEPT ![i] = [w EXCEPT !.own = s]]

RaceFrame == <<opus_decoder, now, pc, cur, result, last, armed, fails>>

\* _get_or_create_session, line 51: the membership test.
GrpcLookup(i) ==
    /\ script[i].pc = "start"
    /\ script' = [script EXCEPT ![i].pc =
                    IF "a" \notin DOMAIN sessions THEN "create" ELSE "fetch"]
    /\ UNCHANGED <<sessions, RaceFrame>>

\* Lines 52-59: a new dict is stored under the id; a thread whose session
\* variable referred to the object stored there before keeps that object.
GrpcCreate(i) ==
    /\ script[i].pc = "create"
    /\ sessions' = ("a" :> NewSession) @@ sessions
    /\ script' = [j \in Threads |->
                    IF j = i THEN [script[j] EXCEPT !.pc = "fetch"]
                    ELSE IF script[j].ref = "store"
                    THEN [script[j] EXCEPT !.ref = "own", !.own = sessions["a"]]
                    ELSE script[j]]
    /\ UNCHANGED RaceFrame

\* Line 60 and line 71: session = self.sessions[session_id].
GrpcFetch(i) ==
    /\ script[i].pc = "fetch"
    /\ script' = [script EXCEPT ![i].pc = "extend", ![i].ref = "store"]
    /\ UNCHANGED <<sessions, RaceFrame>>

\* Line 86: session["audio_buffer"].extend(audio_data); lines 88-89.
GrpcExtend(i) ==
    /\ script[i].pc = "extend"
    /\ ThreadWrites(i, ExtendBuffer(SessionOf(i), script[i].data),
                     [script[i] EXCEPT !.pc = "test"])
    /\ UNCHANGED RaceFrame

\* Line 91: the test of the while loop.
GrpcTest(i) ==
    /\ script[i].pc = "test"
    /\ script' = [script EXCEPT ![i].pc =
                    IF BytesLen(SessionOf(i).audio_buffer) >= FrameBytes
                    THEN "take" ELSE "return"]
    /\ UNCHANGED <<sessions, RaceFrame>>

\* Lines 92-93: the first 1024 bytes, or what is left of them, are cut off.
GrpcTake(i) ==
    /\ script[i].pc = "take"
    /\ LET have == BytesLen(SessionOf(i).audio_buffer)
       IN  ThreadWrites(i, PopFrame(SessionOf(i)),
                        [script[i] EXCEPT !.pc = "score",
                                          !.chunk = IF have < FrameBytes THEN have
                                                    ELSE FrameBytes])
    /\ UNCHANGED RaceFrame

\* Lines 95-134: the frame is scored and the session updated.
GrpcScore(i, prob) ==
    /\ script[i].pc = "score"
    /\ LET s2 == ProcessFrame(SessionOf(i), prob, now)
       IN  ThreadWrites(i, s2,
                        [script[i] EXCEPT !.pc = "test",
                                          !.client_have_voice = s2.have_voice,
                                          !.speech_prob = IF @ = NoProb THEN prob ELSE @])
    /\ UNCHANGED RaceFrame

\* Lines 99-100 and 142-144: the model is given fewer than 512 samples and
\* raises (the Silero model accepts frames of 512 samples at 16 kHz; builds
\* that take any length score the short frame instead, as GrpcScore does).
GrpcScoreRaises(i) ==
    /\ script[i].pc = "score"
    /\ script[i].chunk < FrameBytes
    /\ script' = [script EXCEPT ![i].pc = "done", ![i].response = ErrorResponse("a")]
    /\ UNCHANGED <<sessions, RaceFrame>>

\* Lines 136-140: voice_stop is read and left as it is.
GrpcReturn(i) ==
    /\ script[i].pc = "return"
    /\ script' = [script EXCEPT
                    ![i].pc = "done",
                    ![i].response = OkResponse(SessionOf(i), "a",
                                               script[i].client_have_voice,
                                               script[i].speech_prob)]
    /\ UNCHANGED <<sessions, RaceFrame>>

RaceLookup == \E i \in Threads : GrpcLookup(i)
RaceCreate == \E i \in Threads : GrpcCreate(i)
RaceFetch == \E i \in Threads : GrpcFetch(i)
RaceExtend == \E i \in Threads : GrpcExtend(i)
RaceTest == \E i \in Threads : GrpcTest(i)
RaceTake == \E i \in Threads : GrpcTake(i)
RaceScore == \E i \in Threads, prob \in RaceProbs : GrpcScore(i, prob)
RaceScoreRaises == \E i \in Threads : GrpcScoreRaises(i)
RaceReturn == \E i \in Threads : GrpcReturn(i)

RaceNext ==
    \/ RaceLookup
    \/ RaceCreate
    \/ RaceFetch
    \/ RaceExtend
    \/ RaceTest
    \/ RaceTake
    \/ RaceScore
    \/ RaceScoreRaises
    \/ RaceReturn

RaceSpec == RaceInit /\ [][RaceNext]_vars

\* process_audio of vad_service_grpc.py run from its entry to its return with
\* no other thread in between: the k-th frame is scored scores[k].
RECURSIVE GrpcDrain(_, _, _, _, _, _)
GrpcDrain(s, scores, k, t, client_have_voice, speech_prob) ==
    IF BytesLen(s.audio_buffer) < FrameBytes
    THEN [ session  |-> s,
           response |-> OkResponse(s, "a", client_have_voice, speech_prob) ]
    ELSE LET s2 == ProcessFrame(PopFrame(s), scores[k], t)
         IN  GrpcDrain(s2, scores, k + 1, t, s2.have_voice,
                       IF speech_prob = NoProb THEN scores[k] ELSE speech_prob)

GrpcRunCall(ss, data, scores, t) ==
    LET ss1 == get_or_create_session(ss, "a")
        r == GrpcDrain(ExtendBuffer(ss1["a"], data), scores, 1, t, FALSE, NoProb)
    IN  [ store |-> [ss1 EXCEPT !["a"] = r.session], response |-> r.response ]

----------------------------------------------------------------------------
(* CallSpec: one stream, with a record of what each call was given and what  *)
(* it did. script = [calls, fmt, b, n, scores, frames, fed, drained, opus]:  *)
(* the calls made; of the call in progress its format, the bytes it found    *)
(* buffered, the bytes it appended, the probabilities the scorer returned    *)
(* and the frames it has cut off; all bytes appended to the session and all  *)
(* frames cut off it since it was created; whether an opus chunk has been    *)
(* ingested. PCM chunks carry a byte value that changes from call to call,   *)
(* decoded opus is all zero.                                                 *)

CallChunk(n) == Fill(n, 1 + (script.calls % 2))

CallInit ==
    /\ Started
    /\ script = [ calls |-> 0, fmt |-> "", b |-> 0, n |-> 0, scores |-> << >>,
                  frames |-> 0, fed |-> << >>, drained |-> << >>, opus |-> FALSE ]

CallIngest ==
    /\ script.calls < MaxCalls
    /\ \E fmt \in Formats, n \in PcmLens, create_ok \in BOOLEAN, decode_ok \in BOOLEAN :
         LET appended == IF fmt = "opus" THEN Fill(OpusPcmBytes, 0) ELSE CallChunk(n)
         IN  /\ Begin("a", fmt, CallChunk(n), create_ok, decode_ok)
             /\ script' = [script EXCEPT
                   !.calls = @ + 1,
                   !.fmt = fmt,
                   !.b = IF "a" \in DOMAIN sessions
                         THEN BytesLen(sessions["a"].audio_buffer) ELSE 0,
                   !.n = IF pc' = "loop" THEN BytesLen(appended) ELSE 0,
                   !.scores = << >>,
                   !.frames = 0,
                   !.fed = IF pc' = "loop" THEN Concat(@, appended) ELSE @,
                   !.opus = @ \/ fmt = "opus"]

CallScore ==
    \E prob \in ProbSet :
        /\ Frame(prob)
        /\ script' = [script EXCEPT
              !.scores = Append(@, prob),
              !.frames = @ + 1,
              !.drained = Concat(@, FrameChunk(sessions[cur.sid]))]

CallScoreFailure ==
    /\ fails < MaxFails
    /\ FrameFails
    /\ script' = [script EXCEPT
          !.frames = @ + 1,
          !.drained = Concat(@, FrameChunk(sessions[cur.sid]))]

CallReset ==
    /\ Reset("a")
    /\ script' = [script EXCEPT !.fed = << >>, !.drained = << >>]

CallNext ==
    \/ CallIngest
    \/ CallScore
    \/ CallScoreFailure
    \/ Respond
    \/ CallReset
    \/ Taken

CallSpec == CallInit /\ [][CallNext]_vars

-----------------------------------------------------------------------------
(* One session fed whole frames; script is the sequence of the per-frame
   decisions (is_voice, as stored in last_is_voice) since the session was
   created. *)

WindowProbs == {20, 35, 50}

WindowLens == {1024, 2048}

WindowInit == Started /\ script = << >>

WindowIngest ==
    \E n \in WindowLens :
        /\ Begin("a", "pcm", Fill(n, 0), TRUE, TRUE)
        /\ UNCHANGED script

WindowScore ==
    \E prob \in WindowProbs :
        /\ Len(script) < MaxWindowFrames
        /\ Frame(prob)
        /\ script' = Append(script, sessions'[cur.sid].last_is_voice)

WindowReset == Reset("a") /\ script' = << >>

WindowNext ==
    \/ WindowIngest
    \/ WindowScore
    \/ Respond
    \/ WindowReset
    \/ Taken

WindowSpec == WindowInit /\ [][WindowNext]_vars

-----------------------------------------------------------------------------
(* The two variants side by side: every call on stream "a" is made on the
   HTTP service (sessions, result) and on the gRPC service (script.store,
   script.other) with the same bytes, the same scorer outputs and the same
   clock reading. *)

(* One stream with its failures remembered: script is the set of session ids
   on which an ingest call has ended in a scorer failure that left voice_stop
   set, since the session was created. *)

LatchInit == Started /\ script = {}

LatchScoreFailure ==
    /\ fails < MaxFails
    /\ FrameFails
    /\ script' = IF sessions'[cur.sid].voice_stop THEN script \cup {cur.sid} ELSE script

LatchReset == \E id \in SessionIds : Reset(id) /\ script' = script \ {id}

LatchNext ==
    \/ Ingest
    \/ Score
    \/ LatchScoreFailure
    \/ Respond
    \/ LatchReset
    \/ Taken
    \/ Clock

LatchSpec == LatchInit /\ [][LatchNext]_vars

-----------------------------------------------------------------------------
PairLens == {512, 1024, 2048}

PairScores == [1..2 -> {20, 50}]

PairInit == Started /\ script = [store |-> << >>, other |-> NoResponse]

PairCall ==
    /\ pc = "idle"
    /\ \E n \in PairLens, scores \in PairScores :
         \E ra \in {RunCall(sessions, opus_decoder, "a", "pcm", Fill(n, 0),
                            TRUE, TRUE, scores, 0, now)} :
           \E rb \in {GrpcRunCall(script.store, Fill(n, 0), scores, now)} :
             /\ Flips(ra.store["a"].voice_window) <= MaxFlips
             /\ sessions' = ra.store
             /\ result' = ra.response
             /\ script' = [store |-> rb.store, other |-> rb.response]
    /\ pc' = "done"
    /\ UNCHANGED <<opus_decoder, now, cur, last, armed, fails>>

PairNext ==
    \/ PairCall
    \/ Taken
    \/ Clock

PairSpec == PairInit /\ [][PairNext]_vars

----------------------------------------------------------------------------
(* The steps the claims speak of *)

\* A frame has been scored and processed in this step.
FrameStep == pc = "loop" /\ pc' = "loop" /\ sessions' # sessions

\* process_audio returns normally in this step.
ReturnStep ==
    /\ pc = "loop"
    /\ pc' = "done"
    /\ BytesLen(sessions[cur.sid].audio_buffer) < FrameBytes

\* The scorer raises in this step.
ScoreFailureStep ==
    /\ pc = "loop"
    /\ pc' = "done"
    /\ BytesLen(sessions[cur.sid].audio_buffer) >= FrameBytes

\* process_audio leaves through one of its decode-failure returns in this step.
DecodeFailureStep == pc = "idle" /\ pc' = "done" /\ cur'.sid # ""

\* reset_session runs in this step.
ResetStep == pc = "idle" /\ pc' = "done" /\ cur'.sid = ""

----------------------------------------------------------------------------
(* Claims *)

\* C1: once has_voice became true at time T and only frames with a false
\* voting candidate follow, voice_stop is raised at the first of those frames
\* that is processed at a time t with t - T >= silence_threshold_ms.
C1_EndpointAtFirstLateSilentFrame ==
    [][ FrameStep =>
          LET id == cur.sid
          IN  ( /\ id \in armed
                /\ ~sessions'[id].have_voice
                /\ now - sessions[id].last_activity_time >= silence_threshold_ms )
              => sessions'[id].voice_stop ]_vars

\* C2: in the streaming scenario, once the session has have_voice = true after
\* the frames scored 0.9, exactly one of the calls that feed the 1100 ms of
\* silence answers voice_stop = true (the one on which the silence passes
\* 1000 ms), and the call after it answers false.
C2_ScenarioStopsOnce ==
    (script.call = ScnCalls /\ pc = "idle") =>
        \E i \in 1..Len(script.stops) :
            /\ script.stops[i]
            /\ \A j \in 1..Len(script.stops) : j # i => ~script.stops[j]

\* C3: a response with voice_stop = true leaves the session's flag cleared,
\* and the call right after it, when it completes no frame, answers
\* voice_stop = false.
C3_EndpointReadOnce ==
    (pc = "done" /\ result.kind = "ok") =>
        /\ result.voice_stop => ~sessions[result.sid].voice_stop
        /\ ( /\ last = [op |-> "stop", sid |-> result.sid]
             /\ result.speech_prob = NoProb ) => ~result.voice_stop

C3_Witness ==
    /\ pc = "done"
    /\ result.kind = "ok"
    /\ last = [op |-> "stop", sid |-> result.sid]
    /\ result.speech_prob = NoProb
    /\ ~result.voice_stop

\* C4: a call that completes no frame returns the have_voice the session had
\* before it, leaves have_voice and voice_stop of the session as they were and
\* returns no probability.
C4_ZeroFrameCall ==
    [][ (ReturnStep /\ cur.speech_prob = NoProb) =>
          LET id == cur.sid
          IN  /\ result'.have_voice = sessions[id].have_voice
              /\ sessions'[id].have_voice = sessions[id].have_voice
              /\ sessions'[id].voice_stop = sessions[id].voice_stop
              /\ result'.speech_prob = NoProb ]_vars

\* C5: a call whose opus decode fails answers (the have_voice the session had
\* before the call, voice_stop = false, no probability), also while the
\* session's voice_stop is set.
C5_DecodeFailureResponse ==
    [][ DecodeFailureStep =>
          LET id == cur'.sid
              before == IF id \in DOMAIN sessions THEN sessions[id] ELSE NewSession
          IN  result' = Response("decode_failed", id, before.have_voice, FALSE, NoProb) ]_vars

C5_Witness ==
    /\ pc = "done"
    /\ result.kind = "decode_failed"
    /\ sessions[result.sid].voice_stop
    /\ ~result.voice_stop

\* C6: a call whose opus decode fails leaves every field of a session that
\* existed before the call as it was, a set voice_stop included.
C6_DecodeFailureFrame ==
    [][ (DecodeFailureStep /\ cur'.sid \in DOMAIN sessions) =>
          sessions'[cur'.sid] = sessions[cur'.sid] ]_vars

C6_Witness ==
    /\ pc = "done"
    /\ result.kind = "decode_failed"
    /\ sessions[result.sid].voice_stop
    /\ sessions[result.sid].audio_buffer # << >>
    /\ Len(sessions[result.sid].voice_window) = WindowSize

\* C7: when the scorer raises on a frame, the call ends with an error and no
\* result, and the window, the last decision, have_voice, the last voice time
\* and voice_stop stay as the frames before it left them.
C7_ScoreFailureKeepsEffects ==
    [][ ScoreFailureStep =>
          LET id == cur.sid
          IN  /\ result' = ErrorResponse(id)
              /\ sessions'[id].voice_window = sessions[id].voice_window
              /\ sessions'[id].last_is_voice = sessions[id].last_is_voice
              /\ sessions'[id].have_voice = sessions[id].have_voice
              /\ sessions'[id].last_activity_time = sessions[id].last_activity_time
              /\ sessions'[id].voice_stop = sessions[id].voice_stop ]_vars

C7_Witness ==
    /\ pc = "done"
    /\ result.kind = "error"
    /\ cur.speech_prob # NoProb
    /\ sessions[cur.sid].voice_stop

\* The id a step acts for.
Acting ==
    IF pc = "loop" THEN cur.sid ELSE IF pc = "done" THEN result.sid ELSE ""

\* C8: a step of an ingest or a reset on one id, whatever its outcome, leaves
\* the session of every other id in the store, and as it was.
C8_SessionIsolation ==
    [][ \A other \in DOMAIN sessions :
          other # Acting' =>
              /\ other \in DOMAIN sessions'
              /\ sessions'[other] = sessions[other] ]_vars

C8_Witness ==
    /\ pc = "done"
    /\ result.kind = "error"
    /\ \E other \in DOMAIN sessions :
          /\ other # result.sid
          /\ sessions[other].voice_window # << >>
          /\ sessions[other].audio_buffer # << >>

\* C9: after reset(id), every sequence of ingest calls on id gives the
\* responses and the session state that the same calls give on an id that
\* was never used.
C9_ResetEqualsFresh ==
    script.phase = "twin" =>
        /\ "a" \in DOMAIN sessions <=> "b" \in DOMAIN sessions
        /\ "a" \in DOMAIN sessions => sessions["a"] = sessions["b"]
        /\ (pc = "done" /\ result.kind # "reset") =>
              script.other = [result EXCEPT !.sid = "b"]

C9_Witness ==
    /\ script.phase = "twin"
    /\ script.used
    /\ pc = "done"
    /\ result.kind = "ok"
    /\ result.have_voice
    /\ script.other.have_voice

\* C10: reset never fails; it leaves the store without the id, and unchanged
\* when the id was not in it, so that a second reset of the same id changes
\* nothing.
C10_ResetTotalIdempotent ==
    [][ ResetStep =>
          LET id == result'.sid
          IN  /\ result'.kind = "reset"
              /\ id \notin DOMAIN sessions'
              /\ id \notin DOMAIN sessions => sessions' = sessions
              /\ last = [op |-> "reset", sid |-> id] => sessions' = sessions ]_vars

C10_Witness ==
    /\ pc = "done"
    /\ result.kind = "reset"
    /\ last = [op |-> "reset", sid |-> result.sid]
    /\ sessions # << >>

C13_DistinctIdsDoNotBlock ==
    \A id \in StoreIds :
        (pc = "loop" /\ cur.sid # id) =>
            ENABLED (Begin(id, "pcm", Fill(512, 0), TRUE, TRUE) /\ UNCHANGED script)

\* C15: after every ingest call that returns (normally or through a decode
\* failure), the session's buffer holds fewer than 1024 bytes.
C15_BufferBelowFrame ==
    (pc = "done" /\ result.kind \in {"ok", "decode_failed"}) =>
        BytesLen(sessions[result.sid].audio_buffer) < FrameBytes

\* C16: the voting window of every session holds at most 10 entries, between
\* frames and after every call.
C16_WindowAtMostTen ==
    \A id \in DOMAIN sessions : Len(sessions[id].voice_window) <= 10

C16_Witness ==
    \E id \in DOMAIN sessions :
        /\ Len(sessions[id].voice_window) = 10
        /\ sessions[id].last_activity_time > 0
        /\ \A i \in 1..10 : ~sessions[id].voice_window[i]

\* C17: in every state, a session's have_voice is true exactly when at least
\* 3 entries of its voting window are true; a fresh session has an empty
\* window and have_voice false.
C17_HaveVoiceIsVote ==
    \A id \in DOMAIN sessions :
        sessions[id].have_voice <=>
            Cardinality({i \in DOMAIN sessions[id].voice_window :
                            sessions[id].voice_window[i]}) >= 3

C17_Witness ==
    \E id \in DOMAIN sessions :
        /\ ~sessions[id].have_voice
        /\ sessions[id].last_activity_time > 0
        /\ sessions[id].voice_window[Len(sessions[id].voice_window)] = FALSE
        /\ \E i \in DOMAIN sessions[id].voice_window : sessions[id].voice_window[i]

\* C19: voice_stop goes from false to true only in a frame before which the
\* session's have_voice was true; a frame processed while have_voice is false
\* never raises it.
C19_EndpointOnlyFromVoice ==
    [][ \A id \in DOMAIN sessions' :
          ( /\ sessions'[id].voice_stop
            /\ ~(id \in DOMAIN sessions /\ sessions[id].voice_stop) )
          => ( /\ FrameStep
               /\ id = cur.sid
               /\ sessions[id].have_voice ) ]_vars

C19_Witness ==
    /\ pc = "loop"
    /\ sessions[cur.sid].voice_stop
    /\ ~sessions[cur.sid].have_voice

\* The decisions the hysteresis rule gives for a sequence of probabilities:
\* true from 0.5 up, false up to 0.2, in between the decision before it,
\* which is false before the first frame.
RECURSIVE HysteresisOf(_)
HysteresisOf(probs) ==
    IF probs = << >> THEN << >>
    ELSE LET before == HysteresisOf(SubSeq(probs, 1, Len(probs) - 1))
             p == probs[Len(probs)]
             d == IF p >= 50 THEN TRUE
                  ELSE IF p <= 20 THEN FALSE
                  ELSE IF before = << >> THEN FALSE
                  ELSE before[Len(before)]
         IN  Append(before, d)

\* C18: the decision of every frame is true when prob >= 0.5, false when
\* prob <= 0.2, and otherwise the decision of the frame before it in the same
\* session, across calls, which is false for the first frame of a session.
C18_Hysteresis ==
    "a" \in DOMAIN sessions =>
        /\ sessions["a"].voice_window = HysteresisOf(script)
        /\ sessions["a"].last_is_voice =
              (script # << >> /\ HysteresisOf(script)[Len(script)])

C18_Witness ==
    /\ pc = "loop"
    /\ Len(script) = 2
    /\ script[1] = 50
    /\ script[2] = 21
    /\ cur.speech_prob = 21
    /\ sessions["a"].voice_window = <<TRUE, TRUE>>

\* C20: once voice_stop has been set it stays set until the return of an
\* ingest call reads it: no frame turns it back to false, and the return
\* that reads it reports voice_stop = true.
C20_LatchedUntilRead ==
    [][ /\ (FrameStep /\ sessions[cur.sid].voice_stop) => sessions'[cur.sid].voice_stop
        /\ (ReturnStep /\ sessions[cur.sid].voice_stop) => result'.voice_stop ]_vars

\* C14: a configuration with threshold_low >= threshold, or with a
\* frame_window_threshold or min_silence_duration_ms that is not positive, is
\* rejected by the constructor: the service never becomes ready and no
\* session is processed under it.
C14_InvalidConfigRejected ==
    ( \/ script.cfg.threshold_low >= script.cfg.threshold
      \/ script.cfg.frame_window_threshold <= 0
      \/ script.cfg.min_silence_duration_ms <= 0 )
    => (script.state # "ready" /\ sessions = << >>)

\* C11: when two ingest calls on the same session id have run on two request
\* workers, whatever the interleaving, the session and the two results are
\* those of the two calls run one after the other in some order: no bytes, no
\* window entry and no session is lost.
C11_SameSessionSerialized ==
    (\A i \in Threads : script[i].pc = "done") =>
        \E first \in Threads :
          \E scores1 \in [1..2 -> RaceProbs], scores2 \in [1..2 -> RaceProbs] :
            LET second == CHOOSE j \in Threads : j # first
                r1 == GrpcRunCall(<< >>, script[first].data, scores1, now)
                r2 == GrpcRunCall(r1.store, script[second].data, scores2, now)
            IN  /\ sessions = r2.store
                /\ script[first].response = r1.response
                /\ script[second].response = r2.response

\* C21: the speech_prob an ingest call returns is the probability of the
\* first frame the call drained, whatever the later frames scored, and none
\* exactly when the call drained no frame.
C21_FirstFrameProbability ==
    (pc = "done" /\ result.kind \in {"ok", "decode_failed"}) =>
        result.speech_prob =
            IF script.scores = << >> THEN NoProb ELSE script.scores[1]

C21_Witness ==
    /\ pc = "done"
    /\ result.kind = "ok"
    /\ Len(script.scores) = 2
    /\ script.scores[1] = 35
    /\ script.scores[2] = 50
    /\ result.speech_prob = 35

C26_EveryCallDrainsAll ==
    (pc = "done" /\ result.kind \in {"ok", "error"}) =>
        /\ script.frames = (script.b + script.n) \div FrameBytes
        /\ BytesLen(sessions["a"].audio_buffer) = (script.b + script.n) % FrameBytes

\* C26, amended: an ingest call that returns normally, having found b
\* buffered bytes and appended n, has drained exactly (b + n) div 1024
\* frames and leaves (b + n) mod 1024 bytes; during every call the frames
\* drained so far and the complete frames still buffered add up to that
\* number, so the loop ends; and at any time the frames drained since the
\* session was created, each of 1024 bytes, followed by the buffer are the
\* bytes fed to it, in order.
C26_FrameAssembly ==
    /\ (pc = "done" /\ result.kind = "ok") =>
          /\ script.frames = (script.b + script.n) \div FrameBytes
          /\ BytesLen(sessions["a"].audio_buffer) = (script.b + script.n) % FrameBytes
    /\ pc = "loop" =>
          script.frames + (BytesLen(sessions["a"].audio_buffer) \div FrameBytes)
              = (script.b + script.n) \div FrameBytes
    /\ "a" \in DOMAIN sessions =>
          /\ Concat(script.drained, sessions["a"].audio_buffer) = script.fed
          /\ BytesLen(script.drained) % FrameBytes = 0

C26_Witness ==
    /\ pc = "done"
    /\ result.kind = "ok"
    /\ script.b = 512
    /\ script.n = 2048
    /\ script.frames = 2
    /\ Len(script.fed) >= 2
    /\ sessions["a"].audio_buffer # << >>

\* C22: the have_voice a normally returning ingest call returns is the
\* have_voice the session holds at that moment.
C22_ReturnsStoredHaveVoice ==
    [][ ReturnStep => result'.have_voice = sessions'[cur.sid].have_voice ]_vars

\* C24: a session id enters the store in an ingest on that id, with every
\* field but the buffer at its zero value; every ingest leaves its id in the
\* store; and an id leaves the store only in a reset of that id.
C24_SessionLifecycle ==
    [][ \A id \in StoreIds :
          /\ (id \notin DOMAIN sessions /\ id \in DOMAIN sessions') =>
                /\ pc = "idle"
                /\ cur'.sid = id
                /\ [sessions'[id] EXCEPT !.audio_buffer = << >>] = NewSession
          /\ (pc = "idle" /\ cur'.sid = id) => id \in DOMAIN sessions'
          /\ (id \in DOMAIN sessions /\ id \notin DOMAIN sessions') =>
                /\ ResetStep
                /\ result'.sid = id ]_vars

C24_Witness ==
    /\ pc = "done"
    /\ result.kind = "decode_failed"
    /\ result.sid = "b"
    /\ sessions["b"] = NewSession
    /\ "a" \in DOMAIN sessions
    /\ sessions["a"].voice_window # << >>

\* C27: voice_stop is set only at a frame before which last_activity_time was
\* above 0 and at least silence_threshold_ms in the past, and a response with
\* voice_stop = true comes only from a session that has had voice.
C27_EndpointNeverEarly ==
    [][ /\ \A id \in DOMAIN sessions' :
              ( /\ sessions'[id].voice_stop
                /\ ~(id \in DOMAIN sessions /\ sessions[id].voice_stop) )
              => ( /\ id \in DOMAIN sessions
                   /\ sessions[id].last_activity_time > 0
                   /\ now - sessions[id].last_activity_time >= 1000 )
        /\ (ReturnStep /\ result'.voice_stop) =>
              sessions'[cur.sid].last_activity_time > 0 ]_vars

C27_Witness ==
    /\ pc = "done"
    /\ result.kind = "ok"
    /\ result.voice_stop
    /\ now - sessions[result.sid].last_activity_time = 1000

\* C28: a frame after which at least 3 entries of the window are true sets
\* last_activity_time to the current time, have_voice to true and voice_stop
\* to false, whatever have_voice was before it.
C28_VoiceFrameUpdates ==
    [][ ( /\ FrameStep
          /\ Cardinality({i \in DOMAIN sessions'[cur.sid].voice_window :
                              sessions'[cur.sid].voice_window[i]}) >= 3 )
        => ( /\ sessions'[cur.sid].last_activity_time = now
             /\ sessions'[cur.sid].have_voice
             /\ ~sessions'[cur.sid].voice_stop ) ]_vars

C28_Witness ==
    /\ pc = "loop"
    /\ cur.speech_prob = 20
    /\ sessions[cur.sid].voice_window =
          <<FALSE, FALSE, FALSE, FALSE, FALSE, FALSE, TRUE, TRUE, FALSE, TRUE>>
    /\ sessions[cur.sid].have_voice
    /\ sessions[cur.sid].last_activity_time = now
    /\ now \notin Epochs

\* C29: have_voice implies last_activity_time > 0; last_activity_time changes
\* only at a frame whose voting candidate is true, which sets it to the
\* current time, above 0: so it is 0 as long as no frame of the session has
\* had a true candidate, never 0 after one, and unchanged by frames whose
\* candidate is false.
C29_LastVoiceTime ==
    [][ \A id \in DOMAIN sessions' :
          LET before == IF id \in DOMAIN sessions THEN sessions[id] ELSE NewSession
              after == sessions'[id]
              candidate == Cardinality({i \in DOMAIN after.voice_window :
                                          after.voice_window[i]}) >= 3
          IN  /\ after.have_voice => after.last_activity_time > 0
              /\ after.last_activity_time # before.last_activity_time =>
                    /\ FrameStep
                    /\ id = cur.sid
                    /\ candidate
              /\ (FrameStep /\ id = cur.sid /\ candidate) =>
                    /\ after.last_activity_time = now
                    /\ after.last_activity_time > 0 ]_vars

C29_Witness ==
    /\ pc = "loop"
    /\ cur.speech_prob # NoProb
    /\ ~sessions[cur.sid].have_voice
    /\ sessions[cur.sid].last_activity_time > 0
    /\ now > sessions[cur.sid].last_activity_time

\* C30: after n frames of a session have been classified, its window is the
\* last min(n, 10) decisions in arrival order, newest last.
C30_WindowIsRecentDecisions ==
    IF "a" \in DOMAIN sessions
    THEN LET n == Len(script)
             k == IF n < 10 THEN n ELSE 10
         IN  sessions["a"].voice_window = SubSeq(script, n - k + 1, n)
    ELSE script = << >>

C30_Witness ==
    /\ "a" \in DOMAIN sessions
    /\ Len(script) = 11
    /\ script[1] # script[2]
    /\ script[10] # script[11]
    /\ Len(sessions["a"].voice_window) = 10
    /\ sessions["a"].voice_window[1] = script[2]
    /\ sessions["a"].voice_window[10] = script[11]

\* C23: on every sequence of ingest calls on one session with the same scorer
\* outputs and clock readings, the gRPC variant returns the same have_voice,
\* voice_stop and speech_prob as the HTTP variant on every call and keeps the
\* same session state.
C23_GrpcSameAsHttp ==
    /\ script.store = sessions
    /\ pc = "done" =>
          /\ script.other.have_voice = result.have_voice
          /\ script.other.voice_stop = result.voice_stop
          /\ script.other.speech_prob = result.speech_prob

\* C31: no ingest response carries have_voice = true together with
\* voice_stop = true, and between frames no session has have_voice and
\* voice_stop both true.
C31_VoiceAndEndpointExclusive ==
    /\ \A id \in DOMAIN sessions :
          ~(sessions[id].have_voice /\ sessions[id].voice_stop)
    /\ (pc = "done" /\ result.kind \in {"ok", "decode_failed"}) =>
          ~(result.have_voice /\ result.voice_stop)

C31_Witness ==
    /\ pc = "loop"
    /\ sessions[cur.sid].voice_stop
    /\ ~sessions[cur.sid].have_voice
    /\ ~cur.client_have_voice
    /\ BytesLen(sessions[cur.sid].audio_buffer) >= FrameBytes

\* C32: when an ingest call starts, voice_stop of its session is false unless
\* an earlier ingest call on the session ended in a scorer failure with
\* voice_stop set; a normal return leaves voice_stop false, and so does a
\* decode-failure return of a call that started with voice_stop false.
C32_EndpointClearBetweenCalls ==
    [][ \A id \in SessionIds :
          LET before == IF id \in DOMAIN sessions THEN sessions[id] ELSE NewSession
          IN  /\ (pc = "idle" /\ pc' # "idle" /\ cur'.sid = id /\ before.voice_stop)
                    => id \in script
              /\ (ReturnStep /\ cur.sid = id) => ~sessions'[id].voice_stop
              /\ (DecodeFailureStep /\ cur'.sid = id /\ ~before.voice_stop)
                    => ~sessions'[id].voice_stop ]_vars

C32_Witness ==
    /\ pc = "loop"
    /\ cur.speech_prob = NoProb
    /\ cur.sid \in script
    /\ sessions[cur.sid].voice_stop
    /\ result.kind = "none"

\* C33: a scorer failure consumes the failing frame: the step removes exactly
\* that frame's 1024 bytes from the head of the buffer and leaves the bytes
\* after it buffered, the frame is not classified and not added to the window,
\* and the buffer is always what was fed after the bytes already handed to
\* the scorer, failed frames included, so no later call scores it again.
C33_FailureConsumesFrame ==
    [][ /\ ScoreFailureStep =>
              LET id == cur.sid
              IN  /\ sessions'[id].audio_buffer =
                        DropBytes(sessions[id].audio_buffer, FrameBytes)
                  /\ BytesLen(sessions'[id].audio_buffer) =
                        BytesLen(sessions[id].audio_buffer) - 1024
                  /\ sessions'[id].voice_window = sessions[id].voice_window
                  /\ sessions'[id].last_is_voice = sessions[id].last_is_voice
                  /\ script'.scores = script.scores
        /\ "a" \in DOMAIN sessions' =>
              sessions'["a"].audio_buffer =
                  DropBytes(script'.fed, BytesLen(script'.drained)) ]_vars

C33_Witness ==
    /\ pc = "done"
    /\ result.kind = "error"
    /\ script.scores = << >>
    /\ script.frames = 1
    /\ BytesLen(sessions["a"].audio_buffer) >= FrameBytes
    /\ script.calls > 1

====
